---- MODULE Spec2Model ----
(***************************************************************************)
(* olcli: the pull / push / sync commands of src/src/config.ts and the     *)
(* upload call of src/src/client.ts they use, over one local directory,    *)
(* one remote project and the directory's state file .olcli.json.          *)
(*                                                                         *)
(* A file name is a sequence of characters, a relative path a sequence of  *)
(* names (the '/'-joined string of the code).  Times are integers (the     *)
(* millisecond values the code compares as Date objects).                  *)
(***************************************************************************)
EXTENDS Integers, Sequences, FiniteSets, TLC

VARIABLES
  clock,   \* the time new Date() and the file system report
  local,   \* the local directory: path -> [mtime, content]
  remote,  \* the remote project (its archive): path -> content
  meta,    \* the state file .olcli.json
  dirty,   \* paths saved locally after lastPull and not uploaded since
  edits,   \* number of edits made by the user and by other actors, and of kills
  pre,     \* what the running command found (local, remote, meta, dirty)
  last,    \* what the running command did and reports
  prev,    \* the pull / sync that completed just before, if nothing was edited since
  call,    \* the uploadFile call in progress: its position and its requests so far
  auth     \* the places a session cookie is kept in, and the cookie last read

vars == <<clock, local, remote, meta, dirty, edits, pre, last, prev, call, auth>>

\* ------------------------------------------------------------------ bounds
MaxTime == 1
MaxEdits == 2

\* ------------------------------------------------------------- the universe
\* p at the top level of the project, and f/p in a folder
RootFile == << <<"p">> >>
NestedFile == << <<"f">>, <<"p">> >>

Paths == {RootFile, NestedFile}

\* entries of the directory that are not part of the project: .h, a hidden
\* file, .g/p, a file in a hidden directory, and the state file .olcli.json
HiddenFile == << <<".", "h">> >>
HiddenDirFile == << <<".", "g">>, <<"p">> >>
StateFile == << <<".", "o", "l", "c", "l", "i", ".", "j", "s", "o", "n">> >>
HiddenPaths == {HiddenFile, HiddenDirFile}
Contents == {"A", "B"}
Outcomes == {"ok", "error"}
\* how an uploadFile call ends: it returns, or it throws "Failed to upload
\* file: folder_not_found" (no folder handle worked), or it throws otherwise
UploadOutcomes == {"ok", "error", "folder_not_found"}
NoArg == "-"
ProjectArgs == {NoArg, "P1"}

\* the files of the remote project when the directory is first used
InitialArchives == {{RootFile}, {RootFile, NestedFile}}

\* the order in which readdirSync / the zip archive enumerate the files
ScanOrder == <<HiddenDirFile, HiddenFile, StateFile, NestedFile, RootFile>>

Undefined == -1

\* ------------------------------------------------------------------ helpers
StartsWithDot(name) == Len(name) > 0 /\ name[1] = "."

\* (variant: only the file's own name is looked at)
Visible_LeafOnly(p) == ~StartsWithDot(p[Len(p)])

\* scanDir / scanLocalFiles skip every entry whose name starts with '.',
\* directories included, so a file is scanned iff no segment is hidden
Visible(p) == \A i \in 1..Len(p) : ~StartsWithDot(p[i])

\* fileName.split('/').pop()
BaseName(p) == p[Len(p)]

\* meta.lastPull ? new Date(meta.lastPull) : undefined, after existsSync
ReadLastPull(m) ==
  IF m.exists /\ "lastPull" \in DOMAIN m THEN m.lastPull ELSE Undefined

ProjectNameOf(id) == id

RECURSIVE SeqToSet(_)
SeqToSet(s) == IF s = <<>> THEN {} ELSE {Head(s)} \cup SeqToSet(Tail(s))

\* the files of an archive / directory in enumeration order
InOrder(S) == SelectSeq(ScanOrder, LAMBDA p : p \in S)

MetaAbsent == [exists |-> FALSE]

NoPrev ==
  [op |-> "none", status |-> "none", written |-> {}, keptLocal |-> {},
   force |-> FALSE, all |-> FALSE, planWritten |-> {}, planQueue |-> {},
   pushAll |-> FALSE, failedPaths |-> {}]

Idle ==
  [op |-> "none", status |-> "none", force |-> FALSE, all |-> FALSE,
   dryRun |-> FALSE, scanned |-> <<>>, written |-> {}, skipped |-> <<>>,
   queue |-> <<>>, attempts |-> <<>>, uploaded |-> 0, failed |-> 0,
   keptLocal |-> <<>>, newLocal |-> <<>>, metaWritten |-> FALSE,
   fetch |-> "-", steps |-> <<>>, ran |-> 0, planWritten |-> {}, planQueue |-> {},
   file |-> <<>>, requests |-> <<>>, error |-> "-"]

\* what is remembered of a command: of one that was interrupted, also its
\* options and what it was going to write and to upload
PrevOf(l) ==
  [op |-> l.op, status |-> l.status, written |-> l.written,
   keptLocal |-> SeqToSet(l.keptLocal),
   force |-> l.status = "interrupted" /\ l.force,
   all |-> l.status = "interrupted" /\ l.all,
   planWritten |-> l.planWritten, planQueue |-> l.planQueue,
   pushAll |-> l.op = "push" /\ l.status = "done" /\ l.all,
   failedPaths |-> IF l.op = "push" /\ l.status = "done"
                     THEN {l.attempts[i].path :
                             i \in {j \in 1..Len(l.attempts) : ~l.attempts[j].ok}}
                     ELSE {}]

Snapshot == [local |-> local, remote |-> remote, meta |-> meta, dirty |-> dirty]

\* no command is running
NoSnapshot == [local |-> << >>, remote |-> << >>, meta |-> MetaAbsent, dirty |-> {}]

\* getProjectInfo has not been called
NoInfo == [kind |-> "none", rootId |-> <<>>]

\* no uploadFile call is in progress
NoCall ==
  [pc |-> "idle", projectId |-> <<>>, folderId |-> <<>>, info |-> NoInfo,
   target |-> <<>>, first |-> <<>>, firstAnswer |-> "-", sent |-> 0,
   probing |-> <<>>, probeAnswer |-> "-",
   hit |-> 0, deleted |-> "-", probed |-> <<>>, retried |-> <<>>,
   retryAnswer |-> "-", outcome |-> "-"]

\* ------------------------------------------------------------------- Init
\* a value that may be missing: an unset environment variable, a file that
\* does not exist, a key the global configuration does not hold
Absent == [set |-> FALSE, value |-> <<>>]
Some(v) == [set |-> TRUE, value |-> v]

\* no cookie is kept anywhere and none was saved or read
NoAuth ==
  [env |-> Absent, olauth |-> Absent, global |-> Absent,
   saved |-> Absent, got |-> Absent, read |-> FALSE]

Init ==
  /\ clock = 0
  /\ local = << >>
  /\ \E S \in InitialArchives : remote = [p \in S |-> "A"]
  /\ meta = MetaAbsent
  /\ dirty = {}
  /\ edits = 0
  /\ pre = NoSnapshot
  /\ last = Idle
  /\ prev = NoPrev
  /\ call = NoCall
  /\ auth = NoAuth

\* ------------------------------------------------------- the environment
\* no command is running
Idling == last.op = "none"

Tick ==
  /\ Idling
  /\ clock < MaxTime
  /\ clock' = clock + 1
  /\ UNCHANGED <<local, remote, meta, dirty, edits, pre, last, prev, call, auth>>

\* the command has printed its tally and the process ends
Return ==
  /\ ~Idling
  /\ last' = Idle
  /\ pre' = NoSnapshot
  /\ prev' = IF (last.status = "done" /\ last.op \in {"pull", "sync"})
                   \/ last.status = "interrupted"
              THEN PrevOf(last) ELSE NoPrev
  /\ UNCHANGED <<clock, local, remote, meta, dirty, edits, call, auth>>

\* the user saves a file in the local directory
LocalEdit(p, c) ==
  /\ Idling
  /\ edits < MaxEdits
  /\ edits' = edits + 1
  /\ local' = (p :> [mtime |-> clock, content |-> c]) @@ local
  /\ dirty' = IF ReadLastPull(meta) # Undefined /\ clock > ReadLastPull(meta)
                THEN dirty \cup {p} ELSE dirty \ {p}
  /\ prev' = NoPrev
  /\ UNCHANGED <<clock, remote, meta, pre, last, call, auth>>

\* another actor changes the remote project between two commands
RemoteEdit(p, c) ==
  /\ Idling
  /\ edits < MaxEdits
  /\ edits' = edits + 1
  /\ remote' = (p :> c) @@ remote
  /\ prev' = NoPrev
  /\ UNCHANGED <<clock, local, meta, dirty, pre, last, call, auth>>

\* ------------------------------------------------------------- download
\* (variant: the response status is not looked at, an error body is taken
\* for an archive without entries)
DownloadProject_NoStatusCheck(rem, dl) ==
  [ok |-> TRUE, files |-> IF dl = "ok" THEN rem ELSE << >>]

\* OverleafClient.downloadProject(projectId): the archive of the project, or
\* a throw (ok = FALSE) when the response is not ok
DownloadProject(rem, dl) ==
  [ok |-> dl = "ok", files |-> IF dl = "ok" THEN rem ELSE << >>]

\* --------------------------------------------------------------- upload
\* OverleafClient.uploadFile(projectId, null, fileName, content): the file
\* is sent under its base name to the project's root folder; outcome is the
\* answer of the remote service.  success = FALSE stands for the throw.
UploadFile(rem, fileName, content, outcome) ==
  [success |-> outcome = "ok",
   remote  |-> IF outcome = "ok"
                 THEN (<< BaseName(fileName) >> :> content) @@ rem
                 ELSE rem]

\* ----------------------------------------------------------------- pull
\* (variant: the comparison lets an equal time through)
PullSkips_NotStrict(force, loc, lastPull, p) ==
  /\ ~force
  /\ p \in DOMAIN loc
  /\ lastPull # Undefined
  /\ loc[p].mtime >= lastPull

\* the test of the extract loop: skip the entry, keep the local file
PullSkips(force, loc, lastPull, p) ==
  /\ ~force
  /\ p \in DOMAIN loc
  /\ lastPull # Undefined
  /\ loc[p].mtime > lastPull

\* (variant: the time written is not the current one)
PullMeta_Epoch(projectId, now) ==
  [exists |-> TRUE, projectId |-> projectId,
   projectName |-> ProjectNameOf(projectId), lastPull |-> 0]

\* the record pull writes to .olcli.json
PullMeta(projectId, now) ==
  [exists |-> TRUE, projectId |-> projectId,
   projectName |-> ProjectNameOf(projectId), lastPull |-> now]

\* olcli pull [project] [dir] [--force], rem being the archive of the project
\* the command resolves
PullOf(rem, project, force, dl) ==
  LET known     == project = NoArg /\ meta.exists
      projectId == IF known THEN meta.projectId ELSE project
      lastPull  == ReadLastPull(meta)
      zip       == DownloadProject(rem, dl)
      entries   == InOrder(DOMAIN zip.files)
      skipped   == SelectSeq(entries, LAMBDA p : PullSkips(force, local, lastPull, p))
      written   == {p \in DOMAIN zip.files : ~PullSkips(force, local, lastPull, p)}
      rec       == [Idle EXCEPT !.op = "pull", !.force = force]
      got       == [rec EXCEPT !.fetch = dl]
  IN
  /\ Idling
  /\ pre' = Snapshot
  /\ UNCHANGED <<prev, call, auth>>
  /\ IF project = NoArg /\ ~meta.exists
       THEN \* "No project specified": process.exit(1)
            /\ last' = [rec EXCEPT !.status = "exit"]
            /\ UNCHANGED <<clock, local, remote, meta, dirty, edits>>
       ELSE IF ~zip.ok
       THEN \* downloadProject throws: caught, process.exit(1)
            /\ last' = [got EXCEPT !.status = "nofetch"]
            /\ UNCHANGED <<clock, local, remote, meta, dirty, edits>>
       ELSE /\ local' = [p \in DOMAIN local \cup written |->
                           IF p \in written
                             THEN [mtime |-> clock, content |-> zip.files[p]]
                             ELSE local[p]]
            /\ meta' = PullMeta(projectId, clock)
            /\ dirty' = dirty \ written
            /\ last' = [got EXCEPT !.status = "done", !.written = written,
                                   !.skipped = skipped, !.metaWritten = TRUE]
            /\ UNCHANGED <<clock, remote, edits>>

\* pull in a directory that is used with one project
Pull(project, force, dl) == PullOf(remote, project, force, dl)

\* ----------------------------------------------------------------- push
\* (variant: the comparison lets an equal time through)
IsPushCandidate_NotStrict(all, lastPull, file) ==
  all \/ lastPull = Undefined \/ file.mtime >= lastPull

\* scanDir's test on a scanned file: it goes to filesToUpload
IsPushCandidate(all, lastPull, file) ==
  all \/ lastPull = Undefined \/ file.mtime > lastPull

\* readdirSync over the directory tree: the files, and the state file when
\* there is one
DirEntries(loc, metaExists) ==
  DOMAIN loc \cup (IF metaExists THEN {StateFile} ELSE {})

\* scanDir(targetDir): the candidates in enumeration order, hidden entries skipped
ScanDir(loc, m, all) ==
  SelectSeq(ScanOrder, LAMBDA p :
    /\ p \in DirEntries(loc, m.exists)
    /\ Visible(p)
    /\ IsPushCandidate(all, ReadLastPull(m), loc[p]))

\* (variant: the first failure ends the batch, as an uncaught throw would)
PushStep_Abort(acc, path, content, outcome) ==
  IF acc.thrown THEN acc
  ELSE LET r == UploadFile(acc.remote, path, content, outcome)
       IN  IF r.success
             THEN [acc EXCEPT !.remote = r.remote, !.uploaded = @ + 1,
                              !.attempts = Append(@, [path |-> path, ok |-> TRUE, why |-> outcome])]
             ELSE [acc EXCEPT !.thrown = TRUE, !.failed = @ + 1,
                              !.attempts = Append(@, [path |-> path, ok |-> FALSE, why |-> outcome])]

\* one turn of push's upload loop: try { uploadFile; uploaded++ } catch { failed++ }
PushStep(acc, path, content, outcome) ==
  LET r == UploadFile(acc.remote, path, content, outcome)
  IN  IF r.success
        THEN [acc EXCEPT !.remote = r.remote, !.uploaded = @ + 1,
                         !.attempts = Append(@, [path |-> path, ok |-> TRUE, why |-> outcome])]
        ELSE [acc EXCEPT !.failed = @ + 1,
                         !.attempts = Append(@, [path |-> path, ok |-> FALSE, why |-> outcome])]

\* for (const file of filesToUpload) { ... }
RECURSIVE PushLoop(_, _, _, _)
PushLoop(queue, i, oc, acc) ==
  IF i > Len(queue) THEN acc
  ELSE PushLoop(queue, i + 1, oc,
                PushStep(acc, queue[i].path, queue[i].content, oc[queue[i].path]))

NoUploads(rem) ==
  [remote |-> rem, uploaded |-> 0, failed |-> 0, attempts |-> <<>>, thrown |-> FALSE]

OkPaths(attempts) ==
  {attempts[i].path : i \in {j \in 1..Len(attempts) : attempts[j].ok}}

\* (variant: lastPull is moved as well)
PushMeta_MovesLastPull(m, now) == ("lastPush" :> now) @@ ("lastPull" :> now) @@ m

\* meta.lastPush = now, the rest of the record kept
PushMeta(m, now) == ("lastPush" :> now) @@ m

\* the answers of the remote service to the uploads of a queue of paths
UploadAnswers(paths) == [SeqToSet(paths) -> UploadOutcomes]

PushQueue(all) == ScanDir(local, meta, all)

\* (variant: the dry-run return is left out, the candidates are uploaded)
Push_IgnoresDryRun(project, all, dryRun, oc) ==
  LET paths    == PushQueue(all)
      queue    == [i \in 1..Len(paths) |->
                     [path |-> paths[i], content |-> local[paths[i]].content]]
      res      == PushLoop(queue, 1, oc, NoUploads(remote))
      rec      == [Idle EXCEPT !.op = "push", !.all = all, !.dryRun = dryRun]
  IN
  /\ Idling
  /\ pre' = Snapshot
  /\ UNCHANGED <<prev, call, auth>>
  /\ IF project = NoArg /\ ~meta.exists
       THEN /\ last' = [rec EXCEPT !.status = "exit"]
            /\ UNCHANGED <<clock, local, remote, meta, dirty, edits>>
       ELSE IF Len(queue) = 0
       THEN /\ last' = [rec EXCEPT !.status = "nothing"]
            /\ UNCHANGED <<clock, local, remote, meta, dirty, edits>>
       ELSE /\ remote' = res.remote
            /\ meta' = IF meta.exists THEN PushMeta(meta, clock) ELSE meta
            /\ dirty' = dirty \ OkPaths(res.attempts)
            /\ last' = [rec EXCEPT !.status = "done", !.queue = queue,
                                   !.attempts = res.attempts,
                                   !.uploaded = res.uploaded,
                                   !.failed = res.failed,
                                   !.metaWritten = meta.exists]
            /\ UNCHANGED <<clock, local, edits>>

\* olcli push [dir] [--project] [--all] [--dry-run], rem being the archive of
\* the project the command resolves; own tells whether that is the project
\* whose archive the variable remote holds
PushOf(rem, own, project, all, dryRun, oc) ==
  LET paths    == PushQueue(all)
      queue    == [i \in 1..Len(paths) |->
                     [path |-> paths[i], content |-> local[paths[i]].content]]
      res      == PushLoop(queue, 1, oc, NoUploads(rem))
      rec      == [Idle EXCEPT !.op = "push", !.all = all, !.dryRun = dryRun]
  IN
  /\ Idling
  /\ pre' = Snapshot
  /\ UNCHANGED <<prev, call, auth>>
  /\ IF project = NoArg /\ ~meta.exists
       THEN \* "No project specified": process.exit(1)
            /\ last' = [rec EXCEPT !.status = "exit"]
            /\ UNCHANGED <<clock, local, remote, meta, dirty, edits>>
       ELSE IF Len(queue) = 0
       THEN \* "No files to upload": return
            /\ last' = [rec EXCEPT !.status = "nothing"]
            /\ UNCHANGED <<clock, local, remote, meta, dirty, edits>>
       ELSE IF dryRun
       THEN /\ last' = [rec EXCEPT !.status = "dryrun", !.queue = queue]
            /\ UNCHANGED <<clock, local, remote, meta, dirty, edits>>
       ELSE /\ remote' = IF own THEN res.remote ELSE remote
            /\ meta' = IF meta.exists THEN PushMeta(meta, clock) ELSE meta
            /\ dirty' = dirty \ OkPaths(res.attempts)
            /\ last' = [rec EXCEPT !.status = "done", !.queue = queue,
                                   !.attempts = res.attempts,
                                   !.uploaded = res.uploaded,
                                   !.failed = res.failed,
                                   !.metaWritten = meta.exists]
            /\ UNCHANGED <<clock, local, edits>>

\* push in a directory that is used with one project
Push(project, all, dryRun, oc) == PushOf(remote, TRUE, project, all, dryRun, oc)

\* ----------------------------------------------------------------- sync
\* scanLocalFiles(targetDir), run only when the state file exists: the
\* scanned paths in enumeration order (mtime and content are read from loc)
ScanLocalFiles(loc, metaExists) ==
  IF metaExists
    THEN SelectSeq(ScanOrder, LAMBDA p :
           p \in DirEntries(loc, metaExists) /\ Visible(p))
    ELSE <<>>

\* (variant: the time comparison is the wrong way round)
SyncKeepsLocal_Reversed(scanned, loc, lastPull, p) ==
  /\ p \in SeqToSet(scanned)
  /\ lastPull # Undefined
  /\ loc[p].mtime < lastPull

\* (variant: without a lastPull every scanned file counts as modified)
SyncKeepsLocal_NoGuard(scanned, loc, lastPull, p) ==
  /\ p \in SeqToSet(scanned)
  /\ (lastPull = Undefined \/ loc[p].mtime > lastPull)

\* the test of the merge loop: the local file is kept, the remote one not written
SyncKeepsLocal(scanned, loc, lastPull, p) ==
  /\ p \in SeqToSet(scanned)
  /\ lastPull # Undefined
  /\ loc[p].mtime > lastPull

\* (variant: the content comparison is left out)
SyncQueuesKept_Always(loc, rem, p) == TRUE

\* the inner test: the kept local file is queued for upload
SyncQueuesKept(loc, rem, p) == loc[p].content # rem[p]

\* (variant: the throw is caught and counted, as in push)
SyncStep_Catches(acc, path, content, outcome) ==
  LET r == UploadFile(acc.remote, path, content, outcome)
  IN  IF r.success
        THEN [acc EXCEPT !.remote = r.remote, !.uploaded = @ + 1,
                         !.attempts = Append(@, [path |-> path, ok |-> TRUE, why |-> outcome])]
        ELSE [acc EXCEPT !.failed = @ + 1,
                         !.attempts = Append(@, [path |-> path, ok |-> FALSE, why |-> outcome])]

\* one turn of sync's upload loop: await client.uploadFile(...), no catch
SyncStep(acc, path, content, outcome) ==
  IF acc.thrown THEN acc
  ELSE LET r == UploadFile(acc.remote, path, content, outcome)
       IN  IF r.success
             THEN [acc EXCEPT !.remote = r.remote, !.uploaded = @ + 1,
                              !.attempts = Append(@, [path |-> path, ok |-> TRUE, why |-> outcome])]
             ELSE [acc EXCEPT !.thrown = TRUE, !.failed = @ + 1,
                              !.attempts = Append(@, [path |-> path, ok |-> FALSE, why |-> outcome])]

RECURSIVE SyncLoop(_, _, _, _)
SyncLoop(queue, i, oc, acc) ==
  IF i > Len(queue) THEN acc
  ELSE SyncLoop(queue, i + 1, oc,
                SyncStep(acc, queue[i].path, queue[i].content, oc[queue[i].path]))

\* (variant: lastPull is not the current time)
SyncMeta_StalePull(projectId, now) ==
  [exists |-> TRUE, projectId |-> projectId,
   projectName |-> ProjectNameOf(projectId), lastPull |-> 0, lastSync |-> now]

\* the record sync writes to .olcli.json
SyncMeta(projectId, now) ==
  [exists |-> TRUE, projectId |-> projectId,
   projectName |-> ProjectNameOf(projectId), lastPull |-> now, lastSync |-> now]

\* the merge loop's queue: kept local files that differ from the remote
SyncKept(loc, rem, m) ==
  LET scanned == ScanLocalFiles(loc, m.exists)
  IN  SelectSeq(InOrder(DOMAIN rem), LAMBDA p :
        /\ SyncKeepsLocal(scanned, loc, ReadLastPull(m), p)
        /\ SyncQueuesKept(loc, rem, p))

\* (variant: the test remoteFiles.has(path) is not negated)
SyncNew_Inverted(loc, rem, m) ==
  SelectSeq(ScanLocalFiles(loc, m.exists), LAMBDA p : p \in DOMAIN rem)

\* the second loop: scanned local files that are not in the archive
SyncNew(loc, rem, m) ==
  SelectSeq(ScanLocalFiles(loc, m.exists), LAMBDA p : p \notin DOMAIN rem)

SyncQueue == SyncKept(local, remote, meta) \o SyncNew(local, remote, meta)

\* (variant: the entry carries the archive's content where there is one)
SyncQueueEntry_Remote(path, loc, rem) ==
  [path |-> path,
   content |-> IF path \in DOMAIN rem THEN rem[path] ELSE loc[path].content]

\* filesToUpload.push({ path, content: localFile.content }): localFile is the
\* entry of the map scanLocalFiles filled before the merge loop
SyncQueueEntry(path, loc, rem) == [path |-> path, content |-> loc[path].content]

\* olcli sync [dir] [--project], rem and own as for push
SyncOf(rem, own, project, dl, oc) ==
  LET projectId == IF project = NoArg THEN meta.projectId ELSE project
      lastPull  == ReadLastPull(meta)
      zip       == DownloadProject(rem, dl)
      scanned   == ScanLocalFiles(local, meta.exists)
      written   == {p \in DOMAIN zip.files : ~SyncKeepsLocal(scanned, local, lastPull, p)}
      keptLocal == SyncKept(local, zip.files, meta)
      newLocal  == SyncNew(local, zip.files, meta)
      paths     == keptLocal \o newLocal
      queue     == [i \in 1..Len(paths) |-> SyncQueueEntry(paths[i], local, zip.files)]
      res       == SyncLoop(queue, 1, oc, NoUploads(rem))
      rec       == [Idle EXCEPT !.op = "sync"]
      got       == [rec EXCEPT !.fetch = dl]
  IN
  /\ Idling
  /\ pre' = Snapshot
  /\ UNCHANGED <<prev, call, auth>>
  /\ IF project = NoArg /\ ~meta.exists
       THEN \* "No project specified": process.exit(1)
            /\ last' = [rec EXCEPT !.status = "exit"]
            /\ UNCHANGED <<clock, local, remote, meta, dirty, edits>>
       ELSE IF ~zip.ok
       THEN \* downloadProject throws: caught, process.exit(1)
            /\ last' = [got EXCEPT !.status = "nofetch"]
            /\ UNCHANGED <<clock, local, remote, meta, dirty, edits>>
       ELSE /\ local' = [p \in DOMAIN local \cup written |->
                           IF p \in written
                             THEN [mtime |-> clock, content |-> zip.files[p]]
                             ELSE local[p]]
            /\ remote' = IF own THEN res.remote ELSE remote
            /\ meta' = IF res.thrown THEN meta ELSE SyncMeta(projectId, clock)
            /\ dirty' = (dirty \ written) \ OkPaths(res.attempts)
            /\ last' = [got EXCEPT !.status = IF res.thrown THEN "failed" ELSE "done",
                                   !.scanned = scanned,
                                   !.written = written,
                                   !.queue = queue,
                                   !.attempts = res.attempts,
                                   !.uploaded = res.uploaded,
                                   !.failed = res.failed,
                                   !.keptLocal = keptLocal,
                                   !.newLocal = newLocal,
                                   !.metaWritten = ~res.thrown]
            /\ UNCHANGED <<clock, edits>>

\* sync in a directory that is used with one project
Sync(project, dl, oc) == SyncOf(remote, TRUE, project, dl, oc)

Next ==
  \/ Tick
  \/ Return
  \/ \E p \in Paths, c \in Contents : LocalEdit(p, c)
  \/ \E p \in Paths, c \in Contents : RemoteEdit(p, c)
  \/ \E project \in ProjectArgs, force \in BOOLEAN, dl \in Outcomes :
       Pull(project, force, dl)
  \/ \E project \in ProjectArgs, all \in BOOLEAN, dryRun \in BOOLEAN :
       \E oc \in UploadAnswers(PushQueue(all)) :
         Push(project, all, dryRun, oc)
  \/ \E project \in ProjectArgs, dl \in Outcomes :
       \E oc \in UploadAnswers(SyncQueue) :
         Sync(project, dl, oc)

Spec == Init /\ [][Next]_vars

\* ===================================================================
\* One uploadFile call of src/src/client.ts, request by request: the
\* resolution of the root folder, the first attempt, the probing of
\* candidate folders and the retry.  Identifiers are strings of hexadecimal
\* digits, modelled as sequences of characters.
\* ===================================================================
HexDigits == <<"0", "1", "2", "3", "4", "5", "6", "7",
               "8", "9", "a", "b", "c", "d", "e", "f">>

\* the value of one hexadecimal digit, Undefined for any other character
DigitValue(ch) ==
  IF \E k \in 1..16 : HexDigits[k] = ch
    THEN (CHOOSE k \in 1..16 : HexDigits[k] = ch) - 1
    ELSE Undefined

\* parseInt(str, 16): the digits up to the first character that is none
RECURSIVE ParseDigits(_, _)
ParseDigits(str, acc) ==
  IF str = <<>> \/ DigitValue(Head(str)) = Undefined THEN acc
  ELSE ParseDigits(Tail(str), 16 * acc + DigitValue(Head(str)))

ParseInt16(str) == ParseDigits(str, 0)

\* n.toString(16), with a minus sign for a negative n
RECURSIVE ToString16(_)
ToString16(n) ==
  IF n < 0 THEN <<"-">> \o ToString16(0 - n)
  ELSE IF n < 16 THEN << HexDigits[n + 1] >>
  ELSE ToString16(n \div 16) \o << HexDigits[(n % 16) + 1] >>

\* str.padStart(8, '0')
PadStart8(str) ==
  IF Len(str) >= 8 THEN str ELSE [k \in 1..(8 - Len(str)) |-> "0"] \o str

\* the first 16 characters of the project identifiers used here
Prefix == [k \in 1..16 |-> "a"]

\* prefix + counter.toString(16).padStart(8, '0')
Handle(prefix, counter) == prefix \o PadStart8(ToString16(counter))

\* the counters of the projects uploaded to
ProjectCounters == {0, 1, 3, 60}
UploadProjects == {Handle(Prefix, c) : c \in ProjectCounters}

\* no folder identifier (null, and the empty string, are falsy alike)
Null == <<>>

\* the folderId argument of the call, and the root folder identifiers the
\* project page can carry
FolderArgs == {Null, Handle(Prefix, 59)}
MetaRootIds == {Handle(Prefix, 59), Handle(Prefix, 2989)}

\* getProjectInfo: it throws (kind "throws") or returns the page's project
\* record, whose rootFolder[0]._id may be missing (Null)
ProjectInfos ==
  {[kind |-> "throws", rootId |-> Null]}
    \cup {[kind |-> "page", rootId |-> h] : h \in {Null} \cup MetaRootIds}

\* the answers of the service to an upload request, to a probe request and
\* to the deletion of a probe file
UploadResponses == {"ok", "folder_not_found", "http_error", "rejected", "throw"}
ProbeResponses == {"ok", "no_entity", "throw"}
DeleteResponses == {"ok", "error"}

\* projectId.slice(0, 16) and parseInt(projectId.slice(16), 16)
PrefixOf(projectId) == SubSeq(projectId, 1, 16)
CounterOf(projectId) == ParseInt16(SubSeq(projectId, 17, Len(projectId)))

\* computeRootFolderId(projectId)
ComputeRootFolderId(projectId) ==
  PrefixOf(projectId) \o PadStart8(ToString16(CounterOf(projectId) - 1))

\* (variant: the computed identifier is returned without looking at the page)
GetRootFolderId_ComputedOnly(projectId, info) == ComputeRootFolderId(projectId)

\* getRootFolderId(projectId), info being what getProjectInfo did
GetRootFolderId(projectId, info) ==
  IF info.kind = "page" /\ info.rootId # Null
    THEN info.rootId
    ELSE ComputeRootFolderId(projectId)

ProbeSpan == 50

\* (variant: the counters above the project's come first)
ProbeCounters_AboveFirst(projectId) ==
  LET suffix == CounterOf(projectId)
      below  == SelectSeq([k \in 1..(ProbeSpan - 1) |-> k + 1],
                          LAMBDA i : suffix - i >= 0)
  IN  [k \in 1..ProbeSpan |-> suffix + k]
        \o << suffix - 1 >>
        \o [k \in 1..Len(below) |-> suffix - below[k]]

\* (variant: the loop below the counter starts at 1, so that the computed
\* identifier is a candidate twice)
ProbeCounters_FromOne(projectId) ==
  LET suffix == CounterOf(projectId)
      below  == SelectSeq([k \in 1..ProbeSpan |-> k], LAMBDA i : suffix - i >= 0)
  IN  << suffix - 1 >>
        \o [k \in 1..Len(below) |-> suffix - below[k]]
        \o [k \in 1..ProbeSpan |-> suffix + k]

\* the counters of probeRootFolderId's candidates, in the order pushed
ProbeCounters(projectId) ==
  LET suffix == CounterOf(projectId)
      below  == SelectSeq([k \in 1..(ProbeSpan - 1) |-> k + 1],
                          LAMBDA i : suffix - i >= 0)
  IN  << suffix - 1 >>
        \o [k \in 1..Len(below) |-> suffix - below[k]]
        \o [k \in 1..ProbeSpan |-> suffix + k]

\* candidates: each counter formatted behind the prefix
ProbeCandidates(projectId) ==
  LET counters == ProbeCounters(projectId)
  IN  [k \in 1..Len(counters) |-> Handle(PrefixOf(projectId), counters[k])]

\* tryUpload(fid): what it returns for the answer of the service
TryUpload(fid, answer) ==
  CASE answer = "ok"               -> [success |-> TRUE,  error |-> "-"]
    [] answer = "folder_not_found" -> [success |-> FALSE, error |-> "folder_not_found"]
    [] answer = "http_error"       -> [success |-> FALSE, error |-> "status - text"]
    [] OTHER                       -> [success |-> FALSE, error |-> "unknown error"]

\* (variant: every failed attempt starts the probing)
NeedsProbe_AnyFailure(result) == ~result.success

\* if (!result.success && result.error === 'folder_not_found')
NeedsProbe(result) == ~result.success /\ result.error = "folder_not_found"

\* if (probedFolderId && probedFolderId !== targetFolderId)
RetryWith(probedFolderId, targetFolderId) ==
  probedFolderId # Null /\ probedFolderId # targetFolderId

\* if (data.success !== false && data.entity_id)
ProbeHit(answer) == answer = "ok"

\* (variant: a failed deletion makes the probing give up)
ProbeReturns_DeleteMustWork(folderId, deleted) ==
  IF deleted = "ok" THEN folderId ELSE Null

\* try { await deleteEntity(...) } catch { } return folderId: the candidate
\* is returned whatever the deletion did
ProbeReturns(folderId, deleted) == folderId

\* if (!result.success) throw new Error(`Failed to upload file: ${...}`)
CallOutcome(result) ==
  IF result.success THEN "ok"
  ELSE IF result.error = "folder_not_found" THEN "folder_not_found"
  ELSE "error"

Calling(pc) == call.pc = pc

\* uploadFile(projectId, folderId, fileName, content) is called
StartUpload(projectId, folderId) ==
  /\ Idling
  /\ Calling("idle")
  /\ call' = [NoCall EXCEPT !.pc = IF folderId # Null THEN "attempt" ELSE "resolve",
                            !.projectId = projectId,
                            !.folderId = folderId,
                            !.target = folderId]
  /\ UNCHANGED <<clock, local, remote, meta, dirty, edits, pre, last, prev, auth>>

\* targetFolderId = await getRootFolderId(projectId)
ResolveFolder(info) ==
  /\ Calling("resolve")
  /\ call' = [call EXCEPT !.pc = "attempt",
                          !.info = info,
                          !.target = GetRootFolderId(call.projectId, info)]
  /\ UNCHANGED <<clock, local, remote, meta, dirty, edits, pre, last, prev, auth>>

\* result = await tryUpload(targetFolderId), then the test for probing and,
\* when there is none, the end of the call
FirstAttempt(answer) ==
  LET result == TryUpload(call.target, answer)
      asked  == [call EXCEPT !.first = call.target, !.firstAnswer = answer]
  IN
  /\ Calling("attempt")
  /\ call' = IF answer = "throw"
               THEN [asked EXCEPT !.pc = "done", !.outcome = "error"]
             ELSE IF NeedsProbe(result)
               THEN [asked EXCEPT !.pc = "probe"]
             ELSE [asked EXCEPT !.pc = "done", !.outcome = CallOutcome(result)]
  /\ UNCHANGED <<clock, local, remote, meta, dirty, edits, pre, last, prev, auth>>

\* one turn of probeRootFolderId's loop: the probe upload to the next
\* candidate; past the last candidate the function returns null
Probe(answer) ==
  LET candidates == ProbeCandidates(call.projectId)
  IN
  /\ Calling("probe")
  /\ call' = IF call.sent = Len(candidates)
               THEN [call EXCEPT !.pc = "probed", !.probed = Null]
             ELSE IF ProbeHit(answer)
               THEN [call EXCEPT !.pc = "delete", !.sent = @ + 1, !.hit = call.sent + 1,
                                 !.probing = candidates[call.sent + 1],
                                 !.probeAnswer = answer]
             ELSE [call EXCEPT !.sent = @ + 1,
                               !.probing = candidates[call.sent + 1],
                               !.probeAnswer = answer]
  /\ UNCHANGED <<clock, local, remote, meta, dirty, edits, pre, last, prev, auth>>

\* deleteEntity for the probe file, its errors ignored, and the return
DeleteProbe(deleted) ==
  LET candidates == ProbeCandidates(call.projectId)
  IN
  /\ Calling("delete")
  /\ call' = [call EXCEPT !.pc = "probed", !.deleted = deleted,
                          !.probed = ProbeReturns(candidates[call.hit], deleted)]
  /\ UNCHANGED <<clock, local, remote, meta, dirty, edits, pre, last, prev, auth>>

\* back in uploadFile: the retry with the probed handle, if there is one to
\* retry with, and the end of the call
Retry(answer) ==
  LET first  == TryUpload(call.first, call.firstAnswer)
      result == TryUpload(call.probed, answer)
  IN
  /\ Calling("probed")
  /\ call' = IF ~RetryWith(call.probed, call.target)
               THEN [call EXCEPT !.pc = "done", !.outcome = CallOutcome(first)]
             ELSE IF answer = "throw"
               THEN [call EXCEPT !.pc = "done", !.outcome = "error",
                                 !.target = call.probed, !.retried = @ \o <<call.probed>>,
                                 !.retryAnswer = answer]
             ELSE [call EXCEPT !.pc = "done", !.outcome = CallOutcome(result),
                               !.target = call.probed, !.retried = @ \o <<call.probed>>,
                               !.retryAnswer = answer]
  /\ UNCHANGED <<clock, local, remote, meta, dirty, edits, pre, last, prev, auth>>

\* the call has returned or thrown
EndUpload ==
  /\ Calling("done")
  /\ call' = NoCall
  /\ UNCHANGED <<clock, local, remote, meta, dirty, edits, pre, last, prev, auth>>

NextUpload ==
  \/ \E projectId \in UploadProjects, folderId \in FolderArgs :
       StartUpload(projectId, folderId)
  \/ \E info \in ProjectInfos : ResolveFolder(info)
  \/ \E answer \in UploadResponses : FirstAttempt(answer)
  \/ \E answer \in ProbeResponses : Probe(answer)
  \/ \E deleted \in DeleteResponses : DeleteProbe(deleted)
  \/ \E answer \in UploadResponses : Retry(answer)
  \/ EndUpload

SpecUpload == Init /\ [][NextUpload]_vars

\* ===================================================================
\* A command that is interrupted (the process is killed) part way.  The
\* plan of a command is the sequence of its effects on the directory, the
\* project and the state file, in program order; an interrupted run has
\* performed the first k of them.
\* ===================================================================
FileStep(kind, path, content) ==
  [kind |-> kind, path |-> path, content |-> content, meta |-> MetaAbsent]

MetaStep(m) == [kind |-> "meta", path |-> <<>>, content |-> "-", meta |-> m]

WriteSteps(paths, files) ==
  [i \in 1..Len(paths) |-> FileStep("write", paths[i], files[paths[i]])]

\* (variant: the queue is worked through from its end)
UploadSteps_Reversed(paths, loc) ==
  [i \in 1..Len(paths) |->
     FileStep("upload", paths[Len(paths) + 1 - i], loc[paths[Len(paths) + 1 - i]].content)]

UploadSteps(paths, loc) ==
  [i \in 1..Len(paths) |-> FileStep("upload", paths[i], loc[paths[i]].content)]

\* (variant: the state file is written before the entries are extracted)
PullPlan_MetaFirst(project, force) ==
  LET projectId == IF project = NoArg THEN meta.projectId ELSE project
      writes    == SelectSeq(InOrder(DOMAIN remote), LAMBDA p :
                     ~PullSkips(force, local, ReadLastPull(meta), p))
  IN  << MetaStep(PullMeta(projectId, clock)) >> \o WriteSteps(writes, remote)

\* pull: the extract loop, then the write of .olcli.json
PullPlan(project, force) ==
  LET projectId == IF project = NoArg THEN meta.projectId ELSE project
      writes    == SelectSeq(InOrder(DOMAIN remote), LAMBDA p :
                     ~PullSkips(force, local, ReadLastPull(meta), p))
  IN  WriteSteps(writes, remote) \o << MetaStep(PullMeta(projectId, clock)) >>

\* push: the upload loop, then the lastPush patch if the state file exists
PushPlan(all) ==
  UploadSteps(PushQueue(all), local)
    \o (IF meta.exists THEN << MetaStep(PushMeta(meta, clock)) >> ELSE <<>>)

\* sync: the merge loop, the upload loop, then the write of .olcli.json
SyncPlan(project) ==
  LET projectId == IF project = NoArg THEN meta.projectId ELSE project
      scanned   == ScanLocalFiles(local, meta.exists)
      writes    == SelectSeq(InOrder(DOMAIN remote), LAMBDA p :
                     ~SyncKeepsLocal(scanned, local, ReadLastPull(meta), p))
  IN  WriteSteps(writes, remote)
        \o UploadSteps(SyncQueue, local)
        \o << MetaStep(SyncMeta(projectId, clock)) >>

NotRun(loc, rem, m, d) ==
  [local |-> loc, remote |-> rem, meta |-> m, dirty |-> d, written |-> {},
   attempts |-> <<>>, uploaded |-> 0, failed |-> 0, thrown |-> FALSE]

\* one effect of a plan; catches tells whether a throw of uploadFile is
\* caught (push) or ends the command (sync)
RunStep(st, step, oc, catches) ==
  IF st.thrown THEN st
  ELSE IF step.kind = "write"
    THEN [st EXCEPT !.local = (step.path :> [mtime |-> clock, content |-> step.content]) @@ @,
                    !.dirty = @ \ {step.path},
                    !.written = @ \cup {step.path}]
  ELSE IF step.kind = "upload"
    THEN LET r  == UploadFile(st.remote, step.path, step.content, oc[step.path])
             at == [path |-> step.path, ok |-> r.success, why |-> oc[step.path]]
         IN  IF r.success
               THEN [st EXCEPT !.remote = r.remote, !.dirty = @ \ {step.path},
                               !.uploaded = @ + 1, !.attempts = Append(@, at)]
               ELSE [st EXCEPT !.failed = @ + 1, !.attempts = Append(@, at),
                               !.thrown = ~catches]
  ELSE [st EXCEPT !.meta = step.meta]

RECURSIVE RunPlan(_, _, _, _, _, _)
RunPlan(plan, i, k, oc, catches, st) ==
  IF i > k THEN st
  ELSE RunPlan(plan, i + 1, k, oc, catches, RunStep(st, plan[i], oc, catches))

StepPaths(plan, kind) ==
  {plan[i].path : i \in {j \in 1..Len(plan) : plan[j].kind = kind}}

\* the command op, past its project resolution and its download, is killed
\* after the first k effects of its plan
Interrupted(op, plan, force, all, k, oc) ==
  LET st    == RunPlan(plan, 1, k, oc, op = "push", NotRun(local, remote, meta, dirty))
      queue == SelectSeq(plan, LAMBDA step : step.kind = "upload")
  IN
  /\ Idling
  /\ edits < MaxEdits
  /\ edits' = edits + 1
  /\ k < Len(plan)
  /\ ~st.thrown
  /\ pre' = Snapshot
  /\ local' = st.local
  /\ remote' = st.remote
  /\ meta' = st.meta
  /\ dirty' = st.dirty
  /\ last' = [Idle EXCEPT !.op = op, !.status = "interrupted",
                          !.force = force, !.all = all,
                          !.written = st.written,
                          !.queue = [i \in 1..Len(queue) |->
                                       [path |-> queue[i].path, content |-> queue[i].content]],
                          !.attempts = st.attempts,
                          !.uploaded = st.uploaded, !.failed = st.failed,
                          !.metaWritten = (st.meta # meta),
                          !.steps = [i \in 1..Len(plan) |-> plan[i].kind],
                          !.ran = k,
                          !.planWritten = StepPaths(plan, "write"),
                          !.planQueue = StepPaths(plan, "upload")]
  /\ UNCHANGED <<clock, prev, call, auth>>

PullInterrupted(project, force, k) ==
  /\ project # NoArg \/ meta.exists
  /\ Interrupted("pull", PullPlan(project, force), force, FALSE, k,
                 [p \in {} |-> "ok"])

PushInterrupted(project, all, k, oc) ==
  /\ project # NoArg \/ meta.exists
  /\ PushQueue(all) # <<>>
  /\ Interrupted("push", PushPlan(all), FALSE, all, k, oc)

SyncInterrupted(project, k, oc) ==
  /\ project # NoArg \/ meta.exists
  /\ Interrupted("sync", SyncPlan(project), FALSE, FALSE, k, oc)

\* the longest plan: a write and an upload for each path, then the state file
MaxSteps == 2 * Cardinality(Paths) + 1

NextInterrupt ==
  \/ Next
  \/ \E project \in ProjectArgs, force \in BOOLEAN, k \in 0..MaxSteps :
       PullInterrupted(project, force, k)
  \/ \E project \in ProjectArgs, all \in BOOLEAN, k \in 0..MaxSteps :
       \E oc \in UploadAnswers(PushQueue(all)) :
         PushInterrupted(project, all, k, oc)
  \/ \E project \in ProjectArgs, k \in 0..MaxSteps :
       \E oc \in UploadAnswers(SyncQueue) :
         SyncInterrupted(project, k, oc)

SpecInterrupt == Init /\ [][NextInterrupt]_vars

\* ===================================================================
\* Properties of the commands.  pre is the directory, the project and the
\* state file as the running command found them; last is what it did.
\* ===================================================================
PreLastPullSet == pre.meta.exists /\ "lastPull" \in DOMAIN pre.meta

\* the local file at p was modified strictly after lastPull
PreNewer(p) ==
  /\ p \in DOMAIN pre.local
  /\ PreLastPullSet
  /\ pre.local[p].mtime > pre.meta.lastPull

PreDiffers(p) ==
  /\ p \in DOMAIN pre.local
  /\ p \in DOMAIN pre.remote
  /\ pre.local[p].content # pre.remote[p]

PullDone == last.op = "pull" /\ last.status = "done"
PushDone == last.op = "push" /\ last.status = "done"
\* sync got the archive and went through its merge loop
SyncMerged == last.op = "sync" /\ last.status \in {"done", "failed"}

QueuedPaths == {last.queue[i].path : i \in 1..Len(last.queue)}
TimesQueued(p) == Cardinality({i \in 1..Len(last.queue) : last.queue[i].path = p})

\* C1: Pull skips a remote file (no write, listed as skipped) exactly when
\* force is false, the local file exists, lastPull is set and the local
\* mtime is strictly after lastPull; otherwise it writes the remote content.
C1_PullDecisionRule ==
  PullDone =>
    \A p \in DOMAIN pre.remote :
      IF ~last.force /\ PreNewer(p)
        THEN /\ p \in SeqToSet(last.skipped)
             /\ p \notin last.written
             /\ local[p] = pre.local[p]
        ELSE /\ p \notin SeqToSet(last.skipped)
             /\ p \in last.written
             /\ p \in DOMAIN local
             /\ local[p].content = pre.remote[p]

C1_Witness ==
  /\ PullDone
  /\ last.skipped # <<>>
  /\ \E p \in last.written : p \in DOMAIN pre.local /\ PreLastPullSet /\ ~PreNewer(p)

\* C2: in any sequence of non-forced Pull and Sync commands, a local file
\* edited after a pull whose edited content was never uploaded is never
\* overwritten with (different) remote content.  dirty holds the paths
\* edited strictly after lastPull and not uploaded since.
C2_LocalEditsNotLost ==
  (last.op \in {"pull", "sync"} /\ ~last.force) =>
    \A p \in last.written : ~(p \in pre.dirty /\ PreDiffers(p))

\* C3: for a path present remotely and in the local scan, newer than
\* lastPull and different from the remote, Sync leaves the local file
\* untouched and queues the local content; and no path is both written
\* from the remote and queued for upload in one Sync.
C3_SyncConflictRule ==
  SyncMerged =>
    /\ \A p \in DOMAIN pre.remote :
         (Visible(p) /\ PreNewer(p) /\ PreDiffers(p)) =>
           /\ local[p] = pre.local[p]
           /\ p \notin last.written
           /\ \E i \in 1..Len(last.queue) :
                last.queue[i] = [path |-> p, content |-> pre.local[p].content]
    /\ last.written \cap QueuedPaths = {}

C3_Witness ==
  /\ SyncMerged
  /\ \E p \in DOMAIN pre.remote : PreNewer(p) /\ PreDiffers(p)
  /\ last.written # {}

\* C4: a scanned local file is a push candidate iff --all is set, or
\* lastPull is absent, or its mtime is strictly after lastPull.
C4_PushCandidateRule ==
  (last.op = "push" /\ last.status \in {"nothing", "dryrun", "done"}) =>
    QueuedPaths =
      {p \in DOMAIN pre.local :
         Visible(p) /\ (last.all \/ ~PreLastPullSet \/ PreNewer(p))}

C4_Witness ==
  /\ last.op = "push" /\ last.status \in {"dryrun", "done"}
  /\ ~last.all
  /\ PreLastPullSet
  /\ \E p \in DOMAIN pre.local : p \in QueuedPaths
  /\ \E p \in DOMAIN pre.local : p \notin QueuedPaths

\* C5 (as stated): a Pull run directly after a Pull, with no local edit and
\* no remote change in between, writes no local file.
C5_SecondPullWritesNothing ==
  (PullDone /\ prev.op = "pull") => last.written = {}

\* C5 (amended): the second Pull writes again every file the first one
\* wrote, with the same content, so the content of those files is unchanged.
C5_SecondPullRewrites ==
  (PullDone /\ prev.op = "pull") =>
    /\ prev.written \subseteq last.written
    /\ \A p \in prev.written : local[p].content = pre.local[p].content

C5_Witness == PullDone /\ prev.op = "pull" /\ prev.written # {}

\* the unchanged-file case of C6: same content on both sides, local mtime
\* strictly before lastPull
PreUnchangedOld(p) ==
  /\ p \in DOMAIN pre.local
  /\ p \in DOMAIN pre.remote
  /\ pre.local[p].content = pre.remote[p]
  /\ PreLastPullSet
  /\ pre.local[p].mtime < pre.meta.lastPull

\* C6 (as stated): for such a path a non-forced Pull performs no write and a
\* Sync performs neither a local write nor an upload.
C6_UnchangedNotWritten ==
  ((PullDone /\ ~last.force) \/ SyncMerged) =>
    \A p \in Paths :
      PreUnchangedOld(p) => (p \notin last.written /\ p \notin QueuedPaths)

\* C6 (amended): for such a path a non-forced Pull and a Sync both write the
\* (identical) remote content, so the content stays the same, and Sync
\* queues no upload for it.
C6_UnchangedRewritten ==
  ((PullDone /\ ~last.force) \/ SyncMerged) =>
    \A p \in Paths :
      PreUnchangedOld(p) =>
        /\ p \in last.written
        /\ local[p].content = pre.local[p].content
        /\ p \notin QueuedPaths

C6_Witness == SyncMerged /\ \E p \in Paths : PreUnchangedOld(p)

\* C7: a local file edited after lastPull (content differs from the remote)
\* is kept by Sync and its content queued for upload, and a non-forced Pull
\* run after that Sync performs no write to it.
C7_EditedFileScenario ==
  /\ SyncMerged =>
       \A p \in DOMAIN pre.remote :
         (Visible(p) /\ PreNewer(p) /\ PreDiffers(p)) =>
           (local[p] = pre.local[p] /\ p \in QueuedPaths)
  /\ (PullDone /\ ~last.force /\ prev.op = "sync") =>
       \A p \in prev.keptLocal : p \notin last.written

\* C8 (as stated): in every Sync, each visible local file with no remote
\* counterpart is queued for upload exactly once, whatever the state file.
C8_NewFilesQueuedAlways ==
  SyncMerged =>
    \A p \in DOMAIN pre.local :
      (Visible(p) /\ p \notin DOMAIN pre.remote) => TimesQueued(p) = 1

\* C8 (amended): the same, for a Sync that finds the state file.
C8_NewFilesQueuedOnce ==
  (SyncMerged /\ pre.meta.exists) =>
    \A p \in DOMAIN pre.local :
      (Visible(p) /\ p \notin DOMAIN pre.remote) => TimesQueued(p) = 1

C8_Witness ==
  /\ SyncMerged
  /\ pre.meta.exists
  /\ \E p \in DOMAIN pre.local : p \notin DOMAIN pre.remote

\* the remote file at p has a counterpart in sync's local scan
PreScanned(p) == pre.meta.exists /\ p \in DOMAIN pre.local /\ Visible(p)

\* C9 (as stated): every remote file whose local counterpart is not both
\* newer than lastPull and different is written from the remote and counted
\* as pulled, a newer but identical local file included.
C9_RemoteWinsAlways ==
  SyncMerged =>
    \A p \in DOMAIN pre.remote :
      (PreScanned(p) /\ ~(PreNewer(p) /\ PreDiffers(p))) =>
        (p \in last.written /\ local[p].content = pre.remote[p])

\* C9 (amended): a remote file whose local counterpart is not newer than
\* lastPull is written from the remote and counted as pulled; a local file
\* newer than lastPull and identical to the remote is neither written nor
\* queued.
C9_RemoteWinsWhenNotNewer ==
  SyncMerged =>
    \A p \in DOMAIN pre.remote :
      PreScanned(p) =>
        /\ ~PreNewer(p) =>
             /\ p \in last.written
             /\ local[p] = [mtime |-> clock, content |-> pre.remote[p]]
        /\ (PreNewer(p) /\ ~PreDiffers(p)) =>
             /\ p \notin last.written
             /\ p \notin QueuedPaths
             /\ local[p] = pre.local[p]

C9_Witness ==
  /\ SyncMerged
  /\ \E p \in DOMAIN pre.remote : PreScanned(p) /\ PreNewer(p) /\ ~PreDiffers(p)
  /\ \E p \in DOMAIN pre.remote : PreScanned(p) /\ ~PreNewer(p) /\ PreDiffers(p)

\* C10: in Push a failed upload is counted and the later candidates are
\* still tried: every candidate is attempted once, in order, and
\* uploaded + failed is the number of candidates.
C10_PushBestEffort ==
  PushDone =>
    /\ Len(last.attempts) = Len(last.queue)
    /\ \A i \in 1..Len(last.queue) : last.attempts[i].path = last.queue[i].path
    /\ last.uploaded = Cardinality({i \in 1..Len(last.attempts) : last.attempts[i].ok})
    /\ last.failed = Cardinality({i \in 1..Len(last.attempts) : ~last.attempts[i].ok})
    /\ last.uploaded + last.failed = Len(last.queue)

C10_Witness ==
  /\ PushDone
  /\ Len(last.attempts) = 2
  /\ ~last.attempts[1].ok
  /\ last.attempts[2].ok

\* A weaker reading of the second half of C7: the content of a file that
\* Sync kept and uploaded survives the next non-forced Pull.  It fails for a
\* file in a folder: uploadFile sends it under its base name to the root
\* folder, the remote file at the path keeps its old content, and Pull
\* writes that over the edit.
C7_KeptContentSurvives ==
  (PullDone /\ ~last.force /\ prev.op = "sync") =>
    \A p \in prev.keptLocal : local[p].content = pre.local[p].content

\* an upload of the command ended with no folder handle that worked
Unresolved(i) == last.attempts[i].why = "folder_not_found"

\* C17 (as stated): when no working folder handle can be obtained for an
\* upload, the enclosing Push or Sync aborts at that upload and the state
\* file (lastPull, lastPush, lastSync) is not updated.
C17_ResolutionFailureFatal ==
  last.op \in {"push", "sync"} =>
    \A i \in 1..Len(last.attempts) :
      Unresolved(i) =>
        /\ i = Len(last.attempts)
        /\ last.status # "done"
        /\ ~last.metaWritten
        /\ meta = pre.meta

\* C17 (amended): Sync aborts at that upload and leaves the state file as
\* it was; Push counts the file as failed, goes on with the remaining
\* candidates and still records lastPush (when there is a state file),
\* leaving lastPull as it was.
C17_ResolutionFailure ==
  last.op \in {"push", "sync"} =>
    \A i \in 1..Len(last.attempts) :
      Unresolved(i) =>
        IF last.op = "sync"
          THEN /\ i = Len(last.attempts)
               /\ last.status = "failed"
               /\ ~last.metaWritten
               /\ meta = pre.meta
          ELSE /\ last.status = "done"
               /\ ~last.attempts[i].ok
               /\ last.failed >= 1
               /\ Len(last.attempts) = Len(last.queue)
               /\ ReadLastPull(meta) = ReadLastPull(pre.meta)
               /\ IF pre.meta.exists
                    THEN meta = ("lastPush" :> clock) @@ pre.meta
                    ELSE meta = pre.meta

\* a Push with two candidates whose first upload finds no folder
C17_Witness ==
  /\ last.op = "push"
  /\ pre.meta.exists
  /\ Len(last.attempts) = 2
  /\ Unresolved(1)
  /\ last.attempts[2].ok

\* C11: when the upload of one queued file fails during Sync, the failure
\* is counted and the remaining queued files are still uploaded: every
\* queued file is attempted, in order.
C11_SyncBestEffort ==
  SyncMerged =>
    /\ Len(last.attempts) = Len(last.queue)
    /\ \A i \in 1..Len(last.queue) : last.attempts[i].path = last.queue[i].path
    /\ last.uploaded + last.failed = Len(last.queue)

\* C18: if downloading the remote archive fails during Pull or Sync, the
\* command aborts: no local file is written or overwritten, nothing is
\* uploaded and the state file is unchanged.
C18_FetchFailureNoEffect ==
  (last.op \in {"pull", "sync"} /\ last.fetch = "error") =>
    /\ last.status = "nofetch"
    /\ last.written = {}
    /\ last.attempts = <<>>
    /\ ~last.metaWritten
    /\ local = pre.local
    /\ meta = pre.meta
    /\ remote = pre.remote

C18_Witness ==
  /\ last.op = "sync"
  /\ last.fetch = "error"
  /\ pre.meta.exists
  /\ \E p \in DOMAIN pre.remote : PreDiffers(p) /\ ~PreNewer(p)
  /\ SyncQueue # <<>>

\* ===================================================================
\* Properties of the uploadFile call.  call.first is the handle of the
\* first attempt, call.sent the number of probe uploads sent, call.hit the
\* index of the candidate whose probe succeeded, call.retried the handles
\* the upload was retried with.
\* ===================================================================
CallDone == call.pc = "done"
FirstRejected == call.firstAnswer = "folder_not_found"

\* the handle the call starts from when no folderId is passed
DerivedHandle ==
  IF call.info.kind = "page" /\ call.info.rootId # Null
    THEN call.info.rootId
    ELSE Handle(Prefix, CounterOf(call.projectId) - 1)

C14_FolderResolutionOrder ==
  (call.pc = "attempt" /\ call.folderId = Null) =>
    /\ call.target # Null
    /\ IF call.info.kind = "page" /\ call.info.rootId # Null
         THEN call.target = call.info.rootId
         ELSE call.target = Handle(Prefix, CounterOf(call.projectId) - 1)

C14_Witness ==
  /\ call.pc = "attempt"
  /\ call.folderId = Null
  /\ call.info.kind = "page"
  /\ call.info.rootId # Null
  /\ call.target # Handle(Prefix, CounterOf(call.projectId) - 1)

\* the offsets -1, -2 .. -50, +1 .. +50
AllProbeOffsets == [k \in 1..100 |-> IF k <= 50 THEN 0 - k ELSE k - 50]

\* the same without the offsets below -1 that take the counter c below zero
ProbeOffsetsFor(c) == SelectSeq(AllProbeOffsets, LAMBDA o : o >= -1 \/ c + o >= 0)

\* the probes sent so far follow the offsets offs: the latest one went to
\* the candidate at the offset of its rank, nothing is probed after a
\* success, the handle returned is the candidate that succeeded, and null
\* is returned only after the last offset
ProbesFollow(offs) ==
  LET c == CounterOf(call.projectId)
  IN  /\ call.sent <= Len(offs)
      /\ call.sent > 0 => call.probing = Handle(Prefix, c + offs[call.sent])
      /\ call.hit # 0 => call.sent = call.hit
      /\ (call.pc \in {"probed", "done"} /\ call.probed # Null) =>
           (call.hit # 0 /\ call.probed = call.probing)
      /\ (call.pc = "probed" /\ call.probed = Null) => call.sent = Len(offs)

\* C15 (as stated): probeRootFolderId tries the offsets -1, then -2 down to
\* -50, then +1 up to +50 relative to the project's counter, one at a time,
\* and returns the first candidate whose probe upload succeeds, probing
\* none after it.
C15_ProbesAllOffsets == ProbesFollow(AllProbeOffsets)

\* C15 (amended): the same order, but an offset below -1 that would take
\* the counter below zero is left out.
C15_ProbingOrder ==
  ProbesFollow(ProbeOffsetsFor(CounterOf(call.projectId)))

\* a project with counter 3: the probe at offset +1 succeeds as the fourth
C15_Witness ==
  /\ call.pc = "probed"
  /\ CounterOf(call.projectId) = 3
  /\ call.hit = 4
  /\ call.probed = Handle(Prefix, 4)

\* C16: when the probe upload of a candidate succeeds the probe file is
\* deleted and the candidate is returned, even if the deletion fails; a
\* candidate whose probe errors is skipped and the next one is probed; if
\* none succeeds the result is null.
C16_ProbeOutcome ==
  /\ call.pc = "delete" => (call.probeAnswer = "ok" /\ call.hit = call.sent)
  /\ (call.pc = "probed" /\ call.hit # 0) =>
       /\ call.deleted \in DeleteResponses
       /\ call.probed = call.probing
  /\ call.probeAnswer \in {"no_entity", "throw"} =>
       /\ call.hit = 0
       /\ call.deleted = "-"
       /\ \/ call.pc = "probe"
          \/ /\ call.pc \in {"probed", "done"}
             /\ call.probed = Null
             /\ call.sent = Len(ProbeCandidates(call.projectId))

C16_Witness ==
  /\ call.pc = "probed"
  /\ call.sent > 1
  /\ call.deleted = "error"
  /\ call.probed # Null
  /\ call.probed = call.probing

\* Push got past the project resolution with --dry-run set
DryRun == last.op = "push" /\ last.dryRun /\ last.status # "exit"

\* C12: with --dry-run Push reports exactly the candidates a Push without
\* it would upload (with their content), sends no upload, and leaves the
\* state file, the remote project and the local directory unchanged.
C12_DryRunNoEffect ==
  DryRun =>
    /\ last.status \in {"nothing", "dryrun"}
    /\ QueuedPaths =
         {p \in DOMAIN pre.local :
            Visible(p) /\ (last.all \/ ~PreLastPullSet \/ PreNewer(p))}
    /\ \A i \in 1..Len(last.queue) :
         last.queue[i].content = pre.local[last.queue[i].path].content
    /\ last.attempts = <<>>
    /\ last.uploaded = 0 /\ last.failed = 0
    /\ ~last.metaWritten
    /\ meta = pre.meta
    /\ remote = pre.remote
    /\ local = pre.local

C12_Witness ==
  /\ DryRun
  /\ last.status = "dryrun"
  /\ pre.meta.exists
  /\ \E p \in DOMAIN pre.local : p \in QueuedPaths
  /\ \E p \in DOMAIN pre.local : p \notin QueuedPaths

\* ===================================================================
\* Properties of interrupted commands.  last.steps is the plan of the
\* interrupted command (the kinds of its effects, in order), last.ran the
\* number of effects performed; prev is the interrupted command when the
\* same command is run again with nothing edited in between.
\* ===================================================================
WasInterrupted == last.status = "interrupted"
Aborted ==
  last.op \in {"pull", "push", "sync"} /\ last.status \notin {"done", "interrupted"}

\* C19: each Pull, Push and Sync writes the state file at most once and
\* only after all its file writes and uploads; a call that aborts or is
\* interrupted before that leaves the state file exactly as it was.
C19_WatermarkAtomicity ==
  /\ WasInterrupted =>
       /\ \A i \in 1..Len(last.steps) : last.steps[i] = "meta" => i = Len(last.steps)
       /\ last.ran < Len(last.steps)
       /\ ~last.metaWritten
       /\ meta = pre.meta
  /\ Aborted => (~last.metaWritten /\ meta = pre.meta)
  /\ (last.status = "done" /\ last.metaWritten) =>
       Len(last.attempts) = Len(last.queue)

\* a Sync killed after its local writes and its upload, before the state write
C19_Witness ==
  /\ WasInterrupted
  /\ last.op = "sync"
  /\ pre.meta.exists
  /\ last.written # {}
  /\ Len(last.attempts) = 1
  /\ last.ran = Len(last.steps) - 1

\* the command that just ran is the interrupted one run again to its end
Reattempt ==
  /\ prev.status = "interrupted"
  /\ last.op = prev.op
  /\ last.status \in {"done", "failed"}
  /\ last.force = prev.force
  /\ last.all = prev.all

NoEditLost == \A p \in last.written : ~(p \in pre.dirty /\ PreDiffers(p))

\* C20 (as stated): the re-run writes the files the interrupted run was
\* going to write and queues the files it was going to upload, and no
\* local edit is lost.
C20_ReattemptSameDecisions ==
  Reattempt =>
    /\ last.op \in {"pull", "sync"} => last.written = prev.planWritten
    /\ last.op \in {"push", "sync"} => QueuedPaths = prev.planQueue
    /\ ~last.force => NoEditLost

\* Two parts of C20 on their own.  The re-run writes no file the
\* interrupted run was not going to write (this holds) ...
C20_ReattemptWritesWithinPlan ==
  (Reattempt /\ last.op \in {"pull", "sync"}) => last.written \subseteq prev.planWritten

\* ... and it loses no local edit (this fails: a Pull that skipped an edited
\* file has moved lastPull past the edit, and the interrupted Pull and its
\* re-run both overwrite it).
C20_ReattemptLosesNoEdit == (Reattempt /\ ~last.force) => NoEditLost

\* ===================================================================
\* Properties of the state file.
\* ===================================================================
ReadField(m, f) == IF m.exists /\ f \in DOMAIN m THEN m[f] ELSE Undefined

Completed == last.op \in {"pull", "push", "sync"} /\ last.status = "done"

\* C21: across successful Pull, Push and Sync calls, a watermark field
\* (lastPull, lastPush) that is set is never removed and never moves to an
\* earlier time.
C21_WatermarkNeverRolledBack ==
  Completed =>
    \A f \in {"lastPull", "lastPush"} :
      ReadField(pre.meta, f) # Undefined =>
        /\ ReadField(meta, f) # Undefined
        /\ ReadField(meta, f) >= ReadField(pre.meta, f)

\* C23: after every Pull that completes, lastPull is the current time,
\* however many files were written or skipped.
C23_PullSetsLastPull ==
  PullDone =>
    /\ last.metaWritten
    /\ ReadField(meta, "lastPull") = clock

\* every entry was skipped
C23_Witness ==
  /\ PullDone
  /\ clock > 0
  /\ last.written = {}
  /\ last.skipped # <<>>

C25_SyncWatermark ==
  last.op = "sync" =>
    /\ last.status = "done" <=>
         /\ last.fetch = "ok"
         /\ Len(last.attempts) = Len(last.queue)
         /\ \A i \in 1..Len(last.attempts) : last.attempts[i].ok
    /\ IF last.status = "done"
         THEN /\ ReadField(meta, "lastPull") = clock
              /\ ReadField(meta, "lastSync") = clock
         ELSE meta = pre.meta
    /\ Len(last.queue) = Len(last.keptLocal) + Len(last.newLocal)
    /\ last.status = "done" => last.uploaded = Len(last.queue)

C25_Witness ==
  /\ last.op = "sync"
  /\ last.status = "done"
  /\ clock > 0
  /\ last.keptLocal # <<>>
  /\ last.newLocal # <<>>

\* C26: after Push uploads a local file with relative path p, at any depth,
\* the remote project has a file at p with the local file's content.
C26_PushDownloadRoundTrip ==
  PushDone =>
    \A i \in 1..Len(last.attempts) :
      last.attempts[i].ok =>
        LET p == last.attempts[i].path
        IN  p \in DOMAIN remote /\ remote[p] = pre.local[p].content

\* ===================================================================
\* Properties of the derivation of the root folder identifier.
\* ===================================================================
IsHex(str) == \A k \in 1..Len(str) : DigitValue(str[k]) # Undefined

\* C29: for every 24-character hexadecimal project identifier,
\* computeRootFolderId returns the identifier's first 16 characters followed
\* by the 8-digit zero-padded hexadecimal of the counter minus one, itself a
\* 24-character hexadecimal string.  (Violated: for the counter 00000000
\* the number formatted is -1, whose text "-1" is padded to "000000-1".)
C29_ArithmeticDerivation ==
  (~Calling("idle") /\ Len(call.projectId) = 24 /\ IsHex(call.projectId)) =>
    LET id == ComputeRootFolderId(call.projectId)
    IN  /\ Len(id) = 24
        /\ IsHex(id)
        /\ SubSeq(id, 1, 16) = SubSeq(call.projectId, 1, 16)
        /\ ParseInt16(SubSeq(id, 17, 24)) = CounterOf(call.projectId) - 1

\* ===================================================================
\* Properties of the order in which sync reads and writes the directory.
\* ===================================================================
SyncFetched == last.op = "sync" /\ last.status \in {"done", "failed"}

\* every upload sync queued or sent carries the content the local file had
\* before the command, and the files sync kept were compared by the
\* modification time they had before the command
UploadsCarrySnapshot ==
  /\ \A i \in 1..Len(last.queue) :
        /\ last.queue[i].path \in DOMAIN pre.local
        /\ last.queue[i].content = pre.local[last.queue[i].path].content
  /\ \A i \in 1..Len(last.attempts) :
        /\ last.attempts[i].path = last.queue[i].path
        /\ last.attempts[i].ok =>
              remote[<< BaseName(last.attempts[i].path) >>] = last.queue[i].content
                \/ \E j \in (i + 1)..Len(last.attempts) :
                     BaseName(last.attempts[j].path) = BaseName(last.attempts[i].path)
  /\ \A i \in 1..Len(last.keptLocal) :
        pre.local[last.keptLocal[i]].mtime > ReadLastPull(pre.meta)

\* C30 as stated: sync captures every local file before it writes any remote
\* file locally, and every upload carries the captured local content.
\* (Violated: without a state file nothing is captured.)
C30_SyncSnapshotsEveryFile ==
  SyncFetched =>
    /\ SeqToSet(last.scanned) = {p \in DOMAIN pre.local : Visible(p)}
    /\ UploadsCarrySnapshot

\* C30, amended: a sync that finds the state file captures every local file
\* that is not hidden before it writes any remote file locally; without a
\* state file it captures none and queues nothing.  Every upload sync issues
\* carries the local content captured at that point, never the archive's.
C30_SyncSnapshotOrdering ==
  SyncFetched =>
    /\ SeqToSet(last.scanned) =
          IF pre.meta.exists THEN {p \in DOMAIN pre.local : Visible(p)} ELSE {}
    /\ ~pre.meta.exists => last.queue = <<>>
    /\ UploadsCarrySnapshot

C30_Witness ==
  /\ last.op = "sync"
  /\ last.status = "done"
  /\ last.written # {}
  /\ \E i \in 1..Len(last.queue) :
        /\ last.queue[i].path \in SeqToSet(last.keptLocal)
        /\ last.attempts[i].ok
        /\ pre.remote[last.queue[i].path] # last.queue[i].content

\* ===================================================================
\* The directory also holds entries that are not project files: hidden
\* files, files in hidden directories and the state file.
\* ===================================================================
\* the user (or a tool such as git) saves a hidden entry in the directory
HiddenEdit(p, c) ==
  /\ Idling
  /\ edits < MaxEdits
  /\ edits' = edits + 1
  /\ local' = (p :> [mtime |-> clock, content |-> c]) @@ local
  /\ prev' = NoPrev
  /\ UNCHANGED <<clock, remote, meta, dirty, pre, last, call, auth>>

NextHidden ==
  \/ Next
  \/ \E p \in HiddenPaths, c \in Contents : HiddenEdit(p, c)

SpecHidden == Init /\ [][NextHidden]_vars

Hidden(p) == p = StateFile \/ \E i \in 1..Len(p) : StartsWithDot(p[i])

\* C28: push and sync never queue or upload the state file or any file
\* whose own name or any ancestor directory name begins with '.', under any
\* flags (--all included).
C28_HiddenNeverUploaded ==
  last.op \in {"push", "sync"} =>
    /\ \A i \in 1..Len(last.queue) : ~Hidden(last.queue[i].path)
    /\ \A i \in 1..Len(last.attempts) : ~Hidden(last.attempts[i].path)
    /\ \A i \in 1..Len(last.scanned) : ~Hidden(last.scanned[i])
    /\ \A p \in DOMAIN remote : ~Hidden(p)

C28_Witness ==
  /\ PushDone
  /\ last.all
  /\ pre.meta.exists
  /\ HiddenPaths \subseteq DOMAIN pre.local
  /\ last.uploaded > 0

\* ===================================================================
\* A directory used with two projects: the commands may name a project
\* other than the one the directory is bound to.  The archive of the other
\* project belongs to its own users: it is whatever the command finds.
\* ===================================================================
OtherProject == "P2"
BindArgs == ProjectArgs \cup {OtherProject}
OtherArchives == {(RootFile :> "B") @@ (NestedFile :> "B")}

\* the project a command works on: the one named, else the one the state
\* file holds
Resolved(project) ==
  IF project # NoArg THEN project
  ELSE IF meta.exists THEN meta.projectId
  ELSE NoArg

\* downloadProject(projectId) / uploadFile(projectId, ...): the archive the
\* project identifier routes to
ArchiveOf(projectId, other) == IF projectId = OtherProject THEN other ELSE remote

BindPull(project, other, force, dl) ==
  PullOf(ArchiveOf(Resolved(project), other), project, force, dl)

BindPush(project, other, all, dryRun, oc) ==
  PushOf(ArchiveOf(Resolved(project), other), Resolved(project) # OtherProject,
         project, all, dryRun, oc)

BindSync(project, other, dl, oc) ==
  SyncOf(ArchiveOf(Resolved(project), other), Resolved(project) # OtherProject,
         project, dl, oc)

NextBind ==
  \/ Tick
  \/ Return
  \/ \E p \in Paths, c \in Contents : LocalEdit(p, c)
  \/ \E p \in Paths, c \in Contents : RemoteEdit(p, c)
  \/ \E project \in BindArgs, other \in OtherArchives, force \in BOOLEAN, dl \in Outcomes :
       BindPull(project, other, force, dl)
  \/ \E project \in BindArgs, other \in OtherArchives, all \in BOOLEAN, dryRun \in BOOLEAN :
       \E oc \in UploadAnswers(PushQueue(all)) :
         BindPush(project, other, all, dryRun, oc)
  \/ \E project \in BindArgs, other \in OtherArchives, dl \in Outcomes :
       LET rem == ArchiveOf(Resolved(project), other)
       IN  \E oc \in UploadAnswers(SyncKept(local, rem, meta) \o SyncNew(local, rem, meta)) :
             BindSync(project, other, dl, oc)

SpecBind == Init /\ [][NextBind]_vars

\* C22: once the state record holds a project id and name, no pull, push or
\* sync on the directory changes them, whatever project the call names.
\* (Violated: pull <other> <dir> and sync --project <other> write the
\* identity of the project they resolved.)
C22_ProjectIdentityImmutable ==
  (last.op \in {"pull", "push", "sync"} /\ pre.meta.exists) =>
    /\ meta.exists
    /\ meta.projectId = pre.meta.projectId
    /\ meta.projectName = pre.meta.projectName

\* push never changes the identity, --project or not
C22_PushKeepsIdentity ==
  (last.op = "push" /\ pre.meta.exists) =>
    /\ meta.exists
    /\ meta.projectId = pre.meta.projectId
    /\ meta.projectName = pre.meta.projectName

\* ===================================================================
\* olcli download <file> [project]: one file of the project is fetched and
\* written to the current directory.  A path string is the sequence of its
\* parts between the slashes, so a leading slash is an empty first part.
\* ===================================================================
MissingFile == << <<"x">> >>

\* '/' + path
WithSlash(path) == << <<>> >> \o path

\* path.replace(/^\//, '')
StripSlash(path) == IF path # <<>> /\ Head(path) = <<>> THEN Tail(path) ELSE path

\* the file argument of the command
FileArgs ==
  {RootFile, NestedFile, MissingFile, WithSlash(RootFile), WithSlash(MissingFile)}

\* getEntities(projectId): the service lists the files with a leading slash
Entities(rem) == {[path |-> WithSlash(q), type |-> "doc"] : q \in DOMAIN rem}

\* the answers of the project page to findEntityByPath: the page carries the
\* file tree, or no root folder, or getProjectInfo throws
PageAnswers == {"tree", "notree", "throw"}

\* (variant: the existence test lets every path through)
EntityExists_Always(entities, path) == TRUE

\* entities.find(e => e.path.replace(/^\//, '') === normalizedPath ||
\*                    e.path === '/' + normalizedPath)
EntityExists(entities, path) ==
  \E e \in entities :
    \/ StripSlash(e.path) = StripSlash(path)
    \/ e.path = WithSlash(StripSlash(path))

\* findEntityByPath over the tree of the page: a doc whose path from the
\* root, or whose name alone, is the target; root docs come before folders
FindEntityByPath(rem, path, page) ==
  LET target == StripSlash(path)
      hits   == {q \in DOMAIN rem : q = target \/ << BaseName(q) >> = target}
      first  == IF \E q \in hits : Len(q) = 1
                  THEN CHOOSE q \in hits : Len(q) = 1
                  ELSE CHOOSE q \in hits : TRUE
  IN  IF page = "tree" /\ hits # {} THEN [found |-> TRUE, path |-> first]
      ELSE [found |-> FALSE, path |-> <<>>]

\* the zip fallback: entry.entryName === normalizedPath || === path
ZipEntry(files, path) ==
  IF StripSlash(path) \in DOMAIN files THEN StripSlash(path)
  ELSE IF path \in DOMAIN files THEN path
  ELSE <<>>

Asked(req, answer) == [req |-> req, answer |-> answer]

\* downloadByPath(projectId, path): what it returns or throws, and the
\* requests it sends, for the answers of the service
DownloadByPath(rem, path, listing, page, fileAnswer, dl) ==
  LET entity == FindEntityByPath(rem, path, page)
      zip    == DownloadProject(rem, dl)
      r1     == << Asked("entities", listing) >>
      r2     == Append(r1, Asked("page", page))
      r3     == IF entity.found THEN Append(r2, Asked("file", fileAnswer)) ELSE r2
      r4     == Append(r3, Asked("archive", dl))
      fail(requests, error) ==
        [ok |-> FALSE, content |-> "-", requests |-> requests, error |-> error]
  IN  IF listing # "ok" THEN fail(r1, "Failed to get entities")
      ELSE IF ~EntityExists(Entities(rem), path) THEN fail(r1, "File not found")
      ELSE IF entity.found /\ fileAnswer = "ok"
        THEN [ok |-> TRUE, content |-> rem[entity.path], requests |-> r3, error |-> "-"]
      ELSE IF ~zip.ok THEN fail(r4, "Failed to download project")
      ELSE IF ZipEntry(zip.files, path) # <<>>
        THEN [ok |-> TRUE, content |-> zip.files[ZipEntry(zip.files, path)],
              requests |-> r4, error |-> "-"]
      ELSE fail(r4, "File not found in archive")

\* the download command: resolveProject, downloadByPath, then
\* writeFileSync(basename(file), content); every throw ends it with exit(1)
Download(file, project, listing, page, fileAnswer, dl) ==
  LET res        == DownloadByPath(remote, file, listing, page, fileAnswer, dl)
      outputPath == << BaseName(file) >>
      rec        == [Idle EXCEPT !.op = "download", !.file = file]
  IN
  /\ Idling
  /\ pre' = Snapshot
  /\ UNCHANGED <<prev, call, auth>>
  /\ IF project = NoArg /\ ~meta.exists
       THEN \* resolveProject throws "No project specified"
            /\ last' = [rec EXCEPT !.status = "exit", !.error = "No project specified"]
            /\ UNCHANGED <<clock, local, remote, meta, dirty, edits>>
       ELSE IF ~res.ok
       THEN /\ last' = [rec EXCEPT !.status = "failed", !.requests = res.requests,
                                   !.error = res.error]
            /\ UNCHANGED <<clock, local, remote, meta, dirty, edits>>
       ELSE /\ local' = (outputPath :> [mtime |-> clock, content |-> res.content]) @@ local
            /\ dirty' = dirty \ {outputPath}
            /\ last' = [rec EXCEPT !.status = "done", !.requests = res.requests,
                                   !.written = {outputPath}]
            /\ UNCHANGED <<clock, remote, meta, edits>>

NextDownload ==
  \/ Next
  \/ \E file \in FileArgs, project \in ProjectArgs, listing \in Outcomes,
        page \in PageAnswers, fileAnswer \in Outcomes, dl \in Outcomes :
       Download(file, project, listing, page, fileAnswer, dl)

SpecDownload == Init /\ [][NextDownload]_vars

\* the command got the entity list and the file asked for is not in it
Unlisted ==
  /\ last.op = "download"
  /\ last.requests # <<>>
  /\ last.requests[1] = Asked("entities", "ok")
  /\ StripSlash(last.file) \notin DOMAIN pre.remote

\* C27: downloading a path that is not in the remote project's entity list
\* fails with a 'File not found' error, issues no file or archive download
\* request, and writes no local output file.
C27_MissingFileFailsCleanly ==
  Unlisted =>
    /\ last.status = "failed"
    /\ last.error = "File not found"
    /\ last.requests = << Asked("entities", "ok") >>
    /\ last.written = {}
    /\ local = pre.local

C27_Witness ==
  /\ Unlisted
  /\ last.file = WithSlash(MissingFile)
  /\ << BaseName(last.file) >> \notin DOMAIN local
  /\ DOMAIN pre.remote = Paths

\* ===================================================================
\* Properties of one uploadFile call: the folder it targets, the work it
\* does and the identifiers it builds.
\* ===================================================================
\* the call was given a folder to upload to
ExplicitFolder == ~Calling("idle") /\ call.folderId # Null

\* C36: when uploadFile is called with an explicit folder handle, every
\* upload attempt of the call, the retry included, targets that handle.
\* (Violated: after folder_not_found the call probes for the root folder
\* and retries there.)
C36_ExplicitFolderRespected ==
  ExplicitFolder =>
    /\ call.first \in {Null, call.folderId}
    /\ \A i \in 1..Len(call.retried) : call.retried[i] = call.folderId
    /\ call.target = call.folderId

\* the number of real upload attempts made so far, and the answer to the
\* latest of them
RealAttempts == (IF call.first # Null THEN 1 ELSE 0) + Len(call.retried)
LastAnswer == IF call.retried # <<>> THEN call.retryAnswer ELSE call.firstAnswer

\* one probe per offset: ProbeSpan below the counter and ProbeSpan above
MaxProbes == 2 * ProbeSpan

\* the work done by a call so far is within the bounds, and a call that
\* has ended returned success = TRUE or threw
BoundedWork ==
  ~Calling("idle") =>
    LET candidates == ProbeCandidates(call.projectId)
    IN  /\ RealAttempts <= 2
        /\ call.sent <= MaxProbes
        /\ call.sent <= Len(candidates)
        /\ call.sent > 0 => call.probing = candidates[call.sent]
        /\ \A i, j \in 1..Len(candidates) : i # j => candidates[i] # candidates[j]
        /\ CallDone =>
             /\ call.outcome \in {"ok", "error", "folder_not_found"}
             /\ call.outcome = "ok" <=>
                  (LastAnswer # "throw" /\ TryUpload(call.target, LastAnswer).success)

\* what is left of a call at most: the requests still to come
Rank(c) ==
  CASE c.pc = "resolve" -> MaxProbes + 5
    [] c.pc = "attempt" -> MaxProbes + 4
    [] c.pc = "probe"   -> (MaxProbes - c.sent) + 3
    [] c.pc = "delete"  -> 2
    [] c.pc = "probed"  -> 1
    [] OTHER            -> 0

\* C37: a single uploadFile call always terminates (every request of the
\* call that is answered brings it nearer to its end), performing at most
\* two real upload attempts and at most 100 probe uploads (one per
\* candidate, no candidate probed twice), and ends either returning
\* success = TRUE or raising an error.
C37_BoundedResolution ==
  /\ []BoundedWork
  /\ [][(~Calling("idle") /\ ~CallDone) =>
          (Rank(call') < Rank(call) /\ Rank(call') >= 0)]_vars

\* all hundred candidates were probed in vain
C37_Witness ==
  /\ CallDone
  /\ call.sent = MaxProbes
  /\ call.probed = Null
  /\ call.outcome = "folder_not_found"

\* C38: for every 24-character hexadecimal project identifier (counter
\* 00000000 included), the handle of computeRootFolderId and every
\* candidate of probeRootFolderId is a 24-character hexadecimal string with
\* the project's 16-character prefix, and the candidates are pairwise
\* distinct.  (Violated: for the counter 00000000 the first candidate ends
\* in "000000-1".)
C38_CandidatesWellFormed ==
  (~Calling("idle") /\ Len(call.projectId) = 24 /\ IsHex(call.projectId)) =>
    LET candidates == ProbeCandidates(call.projectId)
        wellFormed(id) ==
          Len(id) = 24 /\ IsHex(id) /\ PrefixOf(id) = PrefixOf(call.projectId)
    IN  /\ wellFormed(ComputeRootFolderId(call.projectId))
        /\ \A k \in 1..Len(candidates) : wellFormed(candidates[k])
        /\ \A i, j \in 1..Len(candidates) : i # j => candidates[i] # candidates[j]

\* ===================================================================
\* Properties of the upload batch of push and sync, seen when the command
\* has ended and when it was killed part way.
\* ===================================================================
\* a push or sync whose upload batch was reached
Batch ==
  /\ last.op \in {"push", "sync"}
  /\ last.status \in {"done", "failed", "interrupted"}

\* the rank of a path in the enumeration of the directory
Pos(p) == CHOOSE i \in 1..Len(ScanOrder) : ScanOrder[i] = p

\* the entries from..to of the queue are in enumeration order
Enumerated(queue, from, to) ==
  \A i, j \in from..to : i < j => Pos(queue[i].path) < Pos(queue[j].path)

\* the remote project after the uploads 1..n of the queue that succeeded,
\* one after the other
RECURSIVE AfterUploads(_, _, _, _)
AfterUploads(rem, attempts, queue, n) ==
  IF n = 0 THEN rem
  ELSE LET before == AfterUploads(rem, attempts, queue, n - 1)
       IN  IF attempts[n].ok
             THEN (<< BaseName(queue[n].path) >> :> queue[n].content) @@ before
             ELSE before

OkCount(attempts) == Cardinality({i \in 1..Len(attempts) : attempts[i].ok})

\* C31: within one push or sync batch the uploads are made one at a time in
\* the order the files were queued, the next one starting only when the
\* outcome of the previous one is known: at every point the uploads made
\* are a prefix of the queue, each with its outcome, and the project holds
\* their effects applied in that order; the counters count them.
C31_SequentialUploads ==
  Batch =>
    LET n == Len(last.attempts)
    IN  /\ n <= Len(last.queue)
        /\ \A i \in 1..n : last.attempts[i].path = last.queue[i].path
        /\ IF last.op = "push"
             THEN Enumerated(last.queue, 1, Len(last.queue))
             ELSE \E k \in 0..Len(last.queue) :
                    /\ Enumerated(last.queue, 1, k)
                    /\ Enumerated(last.queue, k + 1, Len(last.queue))
                    /\ \A i \in 1..k : last.queue[i].path \in DOMAIN pre.remote
                    /\ \A i \in (k + 1)..Len(last.queue) :
                         last.queue[i].path \notin DOMAIN pre.remote
        /\ remote = AfterUploads(pre.remote, last.attempts, last.queue, n)
        /\ last.uploaded = OkCount(last.attempts)
        /\ last.failed = n - OkCount(last.attempts)
        /\ \A i \in 1..(n - 1) :
             (last.op = "sync" => last.attempts[i].ok)

\* a push killed between its two uploads, the first of which had failed
C31_Witness ==
  /\ last.op = "push"
  /\ last.status = "interrupted"
  /\ Len(last.queue) = 2
  /\ Len(last.attempts) = 1
  /\ last.failed = 1

\* ===================================================================
\* Properties of a command that follows another with no change between.
\* ===================================================================
\* a sync that got the archive, run right after a sync that completed, with
\* no local or remote change between the two
SyncRepeated ==
  /\ last.op = "sync"
  /\ last.status \in {"done", "failed"}
  /\ prev.op = "sync"
  /\ prev.status = "done"

\* C32: after a sync completes, an immediately repeated sync with no change
\* between queues no file for upload.  (Violated: a new local file in a
\* folder is uploaded under its base name to the root folder, so the next
\* sync still finds it missing from the archive and queues it again.)
C32_SyncConverges == SyncRepeated => last.queue = <<>>

\* ===================================================================
\* A push that follows a push some of whose uploads failed.
\* ===================================================================
\* the push has printed its tally and the process ends; what it failed to
\* upload is kept for the comparison with the next command
ReturnPush ==
  /\ last.op = "push"
  /\ last.status = "done"
  /\ last' = Idle
  /\ pre' = NoSnapshot
  /\ prev' = PrevOf(last)
  /\ UNCHANGED <<clock, local, remote, meta, dirty, edits, call, auth>>

NextPending == Next \/ ReturnPush

SpecPending == Init /\ [][NextPending]_vars

\* a push that scanned the directory, the command before it being a push
\* that completed, with no edit between the two
PushRepeated ==
  /\ last.op = "push"
  /\ last.status \in {"done", "dryrun", "nothing"}
  /\ prev.op = "push"
  /\ prev.status = "done"

UnmarkedMeta == [exists |-> TRUE, projectId |-> "P1", projectName |-> ProjectNameOf("P1")]

\* the user writes .olcli.json by hand
StateFileEdit ==
  /\ Idling
  /\ edits < MaxEdits
  /\ edits' = edits + 1
  /\ meta' = UnmarkedMeta
  /\ prev' = NoPrev
  /\ UNCHANGED <<clock, local, remote, dirty, pre, last, call, auth>>

NextUnmarked == Next \/ StateFileEdit

SpecUnmarked == Init /\ [][NextUnmarked]_vars

\* C34: when the directory has no state file or the state record has no
\* lastPull, sync writes every remote file over any local file at the same
\* path, whatever its modification time or content; when the state file is
\* absent it also scans no local file and queues nothing for upload.
C34_SyncWithoutWatermark ==
  (SyncFetched /\ ~PreLastPullSet) =>
    /\ last.written = DOMAIN pre.remote
    /\ \A p \in DOMAIN pre.remote :
         p \in DOMAIN local /\ local[p].content = pre.remote[p]
    /\ last.keptLocal = <<>>
    /\ IF pre.meta.exists
         THEN /\ SeqToSet(last.scanned) = {p \in DOMAIN pre.local : Visible(p)}
              /\ QueuedPaths = SeqToSet(last.scanned) \ DOMAIN pre.remote
         ELSE last.scanned = <<>> /\ last.queue = <<>>

\* a state file without lastPull, and a local file, newer than anything,
\* that differs from the remote one
C34_Witness ==
  /\ SyncFetched
  /\ pre.meta.exists
  /\ ~PreLastPullSet
  /\ \E p \in DOMAIN pre.remote :
        /\ p \in DOMAIN pre.local
        /\ pre.local[p].content # pre.remote[p]
        /\ pre.local[p].mtime = MaxTime

C34_WitnessNoStateFile ==
  /\ SyncFetched
  /\ ~pre.meta.exists
  /\ \E p \in DOMAIN pre.local : p \notin DOMAIN pre.remote

\* ===================================================================
\* A project that itself holds hidden files (such as .latexmkrc): pull and
\* sync bring them to the directory.
\* ===================================================================
\* another actor saves a hidden file in the remote project
RemoteHiddenEdit(p, c) ==
  /\ Idling
  /\ edits < MaxEdits
  /\ edits' = edits + 1
  /\ remote' = (p :> c) @@ remote
  /\ prev' = NoPrev
  /\ UNCHANGED <<clock, local, meta, dirty, pre, last, call, auth>>

NextDotfiles ==
  \/ NextHidden
  \/ \E p \in HiddenPaths, c \in Contents : RemoteHiddenEdit(p, c)

SpecDotfiles == Init /\ [][NextDotfiles]_vars

\* the local file at p is one a non-forced pull would skip, and it differs
\* from the remote file
PullWouldProtect(p) ==
  /\ p \in DOMAIN pre.remote
  /\ PullSkips(FALSE, pre.local, ReadLastPull(pre.meta), p)
  /\ pre.local[p].content # pre.remote[p]

\* C35: every local file that a non-forced pull would skip and whose
\* content differs from the remote is left un-overwritten by sync too,
\* hidden files and files in hidden directories included.  (Violated: sync
\* does not scan hidden entries, so it takes a hidden file for unmodified
\* and writes the remote version over it.)
C35_SyncProtectsWhatPullProtects ==
  SyncFetched =>
    \A p \in DOMAIN pre.local :
      PullWouldProtect(p) =>
        p \notin last.written /\ local[p] = pre.local[p]

\* for the files that are not hidden the two commands agree
C35_VisibleProtectedAlike ==
  SyncFetched =>
    \A p \in DOMAIN pre.local :
      (PullWouldProtect(p) /\ Visible(p)) =>
        p \notin last.written /\ local[p] = pre.local[p]

\* ===================================================================
\* The session cookie: getSessionCookie and saveOlAuth of
\* src/src/config.ts.  A string is the sequence of its characters.
\* ===================================================================
MaxLen == 2

\* the characters a cookie is made of here: a letter and the three
\* characters the parsing of .olauth looks at
CookieChars == {"a", "=", ";", " "}

RECURSIVE StringsOf(_)
StringsOf(n) ==
  IF n = 0 THEN {<<>>}
  ELSE LET shorter == StringsOf(n - 1)
       IN  shorter \cup {Append(str, ch) : str \in shorter, ch \in CookieChars}

Cookies == StringsOf(MaxLen)

\* the values of OVERLEAF_SESSION and of the global sessionCookie
EnvCookie == <<"e">>
GlobalCookie == <<"g">>

\* 'overleaf_session2='
SessionKey ==
  <<"o", "v", "e", "r", "l", "e", "a", "f", "_",
    "s", "e", "s", "s", "i", "o", "n", "2", "=">>

\* str.trim()
RECURSIVE TrimStart(_)
TrimStart(str) ==
  IF str # <<>> /\ Head(str) = " " THEN TrimStart(Tail(str)) ELSE str

RECURSIVE TrimEnd(_)
TrimEnd(str) ==
  IF str # <<>> /\ str[Len(str)] = " "
    THEN TrimEnd(SubSeq(str, 1, Len(str) - 1))
    ELSE str

Trim(str) == TrimEnd(TrimStart(str))

\* str.includes(ch), str.startsWith(prefix)
Includes(str, ch) == \E k \in 1..Len(str) : str[k] = ch
StartsWith(str, prefix) ==
  Len(str) >= Len(prefix) /\ SubSeq(str, 1, Len(prefix)) = prefix

\* str.split(sep): the pieces between the separators
RECURSIVE SplitFrom(_, _, _, _)
SplitFrom(str, sep, piece, pieces) ==
  IF str = <<>> THEN Append(pieces, piece)
  ELSE IF Head(str) = sep
    THEN SplitFrom(Tail(str), sep, <<>>, Append(pieces, piece))
  ELSE SplitFrom(Tail(str), sep, Append(piece, Head(str)), pieces)

Split(str, sep) == SplitFrom(str, sep, <<>>, <<>>)

\* sessionCookie.split('=')[1]
CookieValue(sessionCookie) == Split(sessionCookie, "=")[2]

\* the parsing of the text of .olauth
ParseOlAuth(text) ==
  LET content == Trim(text)
      parts   == Split(content, ";")
      cookies == [k \in 1..Len(parts) |-> Trim(parts[k])]
      found   == SelectSeq(cookies, LAMBDA c : StartsWith(c, SessionKey))
  IN  IF Includes(content, "=") /\ found # <<>>
        THEN CookieValue(found[1])
        ELSE content

\* getSessionCookie(): the environment, then .olauth, then the global
\* configuration; an empty OVERLEAF_SESSION counts as unset
GetSessionCookie(a) ==
  IF a.env.set /\ a.env.value # <<>> THEN a.env
  ELSE IF a.olauth.set THEN Some(ParseOlAuth(a.olauth.value))
  ELSE a.global

\* saveOlAuth(cookie): writeFileSync(authPath, `overleaf_session2=${cookie}`)
SaveOlAuthText(cookie) == SessionKey \o cookie

NoCommand == Idling /\ Calling("idle")

SaveOlAuth(cookie) ==
  /\ NoCommand
  /\ auth' = [auth EXCEPT !.olauth = Some(SaveOlAuthText(cookie)),
                          !.saved = Some(cookie),
                          !.got = Absent, !.read = FALSE]
  /\ UNCHANGED <<clock, local, remote, meta, dirty, edits, pre, last, prev, call>>

\* the user writes .olauth by hand: the bare cookie, as the README shows
WriteOlAuth(text) ==
  /\ NoCommand
  /\ auth' = [auth EXCEPT !.olauth = Some(text), !.saved = Absent,
                          !.got = Absent, !.read = FALSE]
  /\ UNCHANGED <<clock, local, remote, meta, dirty, edits, pre, last, prev, call>>

\* OVERLEAF_SESSION is exported or unset in the shell
SetEnv(value) ==
  /\ NoCommand
  /\ auth' = [auth EXCEPT !.env = value, !.got = Absent, !.read = FALSE]
  /\ UNCHANGED <<clock, local, remote, meta, dirty, edits, pre, last, prev, call>>

\* setSessionCookie(cookie) / clearConfig()
SetSessionCookie(value) ==
  /\ NoCommand
  /\ auth' = [auth EXCEPT !.global = value, !.got = Absent, !.read = FALSE]
  /\ UNCHANGED <<clock, local, remote, meta, dirty, edits, pre, last, prev, call>>

\* a command reads the cookie
ReadCookie ==
  /\ NoCommand
  /\ ~auth.read
  /\ auth' = [auth EXCEPT !.got = GetSessionCookie(auth), !.read = TRUE]
  /\ UNCHANGED <<clock, local, remote, meta, dirty, edits, pre, last, prev, call>>

NextAuth ==
  \/ \E cookie \in Cookies : SaveOlAuth(cookie)
  \/ \E text \in Cookies : WriteOlAuth(text)
  \/ \E value \in {Absent, Some(EnvCookie)} : SetEnv(value)
  \/ \E value \in {Absent, Some(GlobalCookie)} : SetSessionCookie(value)
  \/ ReadCookie

SpecAuth == Init /\ [][NextAuth]_vars

\* C39: after saveOlAuth(c) has written .olauth, and with OVERLEAF_SESSION
\* unset, getSessionCookie() returns exactly c, for every cookie c; and in
\* general it returns the environment variable if set, else the .olauth
\* value, else the global configuration value.  (Violated: a cookie that
\* holds '=' or ';', or that starts or ends with a blank, comes back cut.)
C39_CredentialRoundTrip ==
  auth.read =>
    IF auth.env.set THEN auth.got = auth.env
    ELSE IF auth.olauth.set
      THEN auth.saved.set => auth.got = auth.saved
    ELSE auth.got = auth.global

\* what holds: the order of the three sources, and the round trip for the
\* cookies without '=', ';' and blanks at either end
C39_PlainCookieRoundTrip ==
  auth.read =>
    IF auth.env.set THEN auth.got = auth.env
    ELSE IF auth.olauth.set
      THEN (/\ auth.saved.set
            /\ ~Includes(auth.saved.value, "=")
            /\ ~Includes(auth.saved.value, ";")
            /\ Trim(auth.saved.value) = auth.saved.value)
             => auth.got = auth.saved
    ELSE auth.got = auth.global

============================================================================
